---- MODULE Spec2Model ----
(***************************************************************************)
(* A model of the transparent gRPC proxy handler of proxy/handler.go:      *)
(* the per-call handler (Director, outgoing context, outbound stream,      *)
(* bidirectional relay, completion callback, deferred cancellation) and    *)
(* the metadata propagation functions CopyMetadata and RemoteIp.           *)
(*                                                                         *)
(* Strings whose characters matter (addresses, metadata values) are        *)
(* sequences of one-character strings; metadata keys are TLA+ strings.     *)
(* An optional value (a context's metadata, a peer) is a sequence of       *)
(* length 0 (absent) or 1 (present).                                       *)
(***************************************************************************)
EXTENDS Integers, Sequences, FiniteSets, TLC

\* ------------------------------------------------------------------ bounds
\* Longest value list of one metadata key in the inputs that are enumerated.
MaxVals == 2
\* Longest peer address string (non-TCP address) that is enumerated.
MaxAddrLen == 3
\* Most frames one side sends within one call, when the relay is examined.
MaxFrames == 2
\* Most frames one side sends within one call, when the handler is examined
\* with every Director.
HandlerFrames == 1
\* Most frames one side of the first call sends when two calls run at once.
ConcFrames == 1

\* ------------------------------------------------------------ small helpers
None == <<>>
Some(x) == <<x>>
IsSome(o) == Len(o) = 1
Get(o) == o[1]

SeqsUpTo(S, n) == UNION {[1..k -> S] : k \in 0..n}
NonEmptySeqsUpTo(S, n) == UNION {[1..k -> S] : k \in 1..n}

IsPrefix(s, t) == Len(s) <= Len(t) /\ SubSeq(t, 1, Len(s)) = s

\* ---------------------------------------------------------------- strings
\* The characters addresses are built from.
AddrChars == {"1", ":", "a"}
\* Two metadata values and two IP literals.
ValA == <<"v">>
ValB == <<"w">>
Ip4 == <<"1", ".", "2">>
Ip6 == <<":", ":", "1">>

\* strings.LastIndex(s, ":"): the last index (0-based) of ":" in s, or -1.
LastIndexColon(s) ==
    LET hits == {i \in 1..Len(s) : s[i] = ":"}
    IN  IF hits = {} THEN -1
        ELSE (CHOOSE i \in hits : \A j \in hits : j <= i) - 1

\* ---------------------------------------------------------------- metadata
\* const XForwardedFor = "X-Forwarded-For"
XForwardedFor == "X-Forwarded-For"
\* The keys inbound metadata is built from; the wire carries lower-case keys.
InKeys == {"k", "x-forwarded-for"}

\* strings.ToLower on the keys of the model.
ToLower(k) == IF k = "X-Forwarded-For" THEN "x-forwarded-for" ELSE k

\* metadata.MD: a map from keys to value lists.
\* MD.Copy(): a new map with a copy of every value list.
MDCopy(md) == [k \in DOMAIN md |-> md[k]]
\* The mutant of MDAppend that does not lower-case the key it appends to.
MDAppendRawKey(md, k, v) ==
    [x \in (DOMAIN md) \cup {k} |->
        IF x = k
        THEN (IF k \in DOMAIN md THEN md[k] ELSE <<>>) \o <<v>>
        ELSE md[x]]
\* The mutant of MDAppend that replaces the key's values instead of appending.
MDAppendReplacing(md, k, v) ==
    [x \in (DOMAIN md) \cup {ToLower(k)} |->
        IF x = ToLower(k) THEN <<v>> ELSE md[x]]
\* MD.Append(k, v): k is lower-cased, v goes to the end of its value list.
MDAppend(md, k, v) ==
    LET lk == ToLower(k)
    IN  [x \in (DOMAIN md) \cup {lk} |->
            IF x = lk
            THEN (IF lk \in DOMAIN md THEN md[lk] ELSE <<>>) \o <<v>>
            ELSE md[x]]
\* metadata.Pairs(k, v): one lower-cased key with the one value.
MDPairs(k, v) == [x \in {ToLower(k)} |-> <<v>>]

\* ---------------------------------------------------------------- contexts
\* A context: the peer of the connection, the incoming metadata, the
\* outgoing metadata (each optional).
MkCtx(peer, inMD, outMD) == [peer |-> peer, inMD |-> inMD, outMD |-> outMD]
Background == MkCtx(None, None, None)
\* metadata.NewOutgoingContext(ctx, md): ctx with its outgoing metadata set.
NewOutgoingContext(ctx, md) == [ctx EXCEPT !.outMD = Some(md)]

\* A peer address: a *net.TCPAddr (IP and port) or another net.Addr, known
\* by its String() alone.
TCPAddr(ip, port) == [kind |-> "tcp", ip |-> ip, port |-> port, s |-> <<>>]
OtherAddr(s) == [kind |-> "other", ip |-> <<>>, port |-> 0, s |-> s]

\* The mutant of RemoteIp that keeps the port of a TCP address.
RemoteIpWithPort(ctx) ==
    IF ~IsSome(ctx.peer) THEN <<>>
    ELSE LET addr == Get(ctx.peer)
         IN  IF addr.kind = "tcp" THEN addr.ip \o <<":">> \o <<"1">>
             ELSE LET i == LastIndexColon(addr.s)
                  IN  IF i < 0 THEN addr.s ELSE SubSeq(addr.s, 1, i)
\* func RemoteIp(ctx): the caller's address without its port.
RemoteIp(ctx) ==
    IF ~IsSome(ctx.peer) THEN <<>>
    ELSE LET addr == Get(ctx.peer)
         IN  IF addr.kind = "tcp" THEN addr.ip
             ELSE LET i == LastIndexColon(addr.s)
                  IN  IF i < 0 THEN addr.s ELSE SubSeq(addr.s, 1, i)

\* The mutant of CopyMetadata that returns ctx untouched when the inbound
\* context has no metadata.
CopyMetadataNoPairs(ctx, serverCtx) ==
    LET remoteIp == RemoteIp(serverCtx)
    IN  IF IsSome(serverCtx.inMD)
        THEN LET md == MDCopy(Get(serverCtx.inMD))
             IN  NewOutgoingContext(ctx,
                    IF Len(remoteIp) # 0
                    THEN MDAppend(md, XForwardedFor, remoteIp) ELSE md)
        ELSE ctx
\* The mutant of CopyMetadata that sets the forwarded-address key instead of
\* appending to it.
CopyMetadataSetting(ctx, serverCtx) ==
    LET remoteIp == RemoteIp(serverCtx)
    IN  IF IsSome(serverCtx.inMD)
        THEN LET md == MDCopy(Get(serverCtx.inMD))
             IN  NewOutgoingContext(ctx,
                    IF Len(remoteIp) # 0
                    THEN MDAppendReplacing(md, XForwardedFor, remoteIp) ELSE md)
        ELSE IF Len(remoteIp) = 0 THEN ctx
        ELSE NewOutgoingContext(ctx, MDPairs(XForwardedFor, remoteIp))
\* The mutant of CopyMetadata that appends the caller's address without
\* looking whether there is one.
CopyMetadataAlwaysAppend(ctx, serverCtx) ==
    LET remoteIp == RemoteIp(serverCtx)
    IN  IF IsSome(serverCtx.inMD)
        THEN LET md == MDCopy(Get(serverCtx.inMD))
             IN  NewOutgoingContext(ctx,
                    MDAppend(md, XForwardedFor, remoteIp))
        ELSE IF Len(remoteIp) = 0 THEN ctx
        ELSE NewOutgoingContext(ctx, MDPairs(XForwardedFor, remoteIp))
\* func CopyMetadata(ctx, serverCtx)
CopyMetadata(ctx, serverCtx) ==
    LET remoteIp == RemoteIp(serverCtx)
    IN  IF IsSome(serverCtx.inMD)
        THEN LET md == MDCopy(Get(serverCtx.inMD))
             IN  NewOutgoingContext(ctx,
                    IF Len(remoteIp) # 0
                    THEN MDAppend(md, XForwardedFor, remoteIp) ELSE md)
        ELSE IF Len(remoteIp) = 0 THEN ctx
        ELSE NewOutgoingContext(ctx, MDPairs(XForwardedFor, remoteIp))

\* The mutant of ArgsAfterCopyMetadata that appends to the inbound map
\* itself (md.Copy() left out).
ArgsAfterCopyMetadataNoCopy(ctx, serverCtx) ==
    LET remoteIp == RemoteIp(serverCtx)
    IN  [ctx |-> ctx,
         serverCtx |->
            IF IsSome(serverCtx.inMD) /\ Len(remoteIp) # 0
            THEN [serverCtx EXCEPT !.inMD =
                    Some(MDAppend(Get(@), XForwardedFor, remoteIp))]
            ELSE serverCtx]
\* The two argument objects of CopyMetadata as they are when it has
\* returned. The maps are objects: `inbound` is the map of the inbound
\* context, `copy` the new map of line 109, and line 111 appends to the
\* map that md names by then, the copy. Contexts are immutable.
ArgsAfterCopyMetadata(ctx, serverCtx) ==
    LET remoteIp == RemoteIp(serverCtx)
        hasMD == IsSome(serverCtx.inMD)
        heap0 == [inbound |-> IF hasMD THEN Get(serverCtx.inMD) ELSE <<>>,
                  copy |-> <<>>]
        heap1 == IF hasMD THEN [heap0 EXCEPT !.copy = MDCopy(heap0.inbound)]
                 ELSE heap0
        heap2 == IF hasMD /\ Len(remoteIp) # 0
                 THEN [heap1 EXCEPT !.copy = MDAppend(@, XForwardedFor, remoteIp)]
                 ELSE heap1
    IN  [ctx |-> ctx,
         serverCtx |-> IF hasMD
                       THEN [serverCtx EXCEPT !.inMD = Some(heap2.inbound)]
                       ELSE serverCtx]

\* ------------------------------------------------------- enumerated inputs
\* Every metadata map over InKeys with value lists of at most MaxVals values.
ValLists == NonEmptySeqsUpTo({ValA, Ip4}, MaxVals)
AllMDs == UNION {[K -> ValLists] : K \in SUBSET InKeys}
\* Every peer: none, a TCP address, or an address string of AddrChars.
AllPeers ==
    {None} \cup {Some(TCPAddr(ip, 80)) : ip \in {Ip4, Ip6}}
           \cup {Some(OtherAddr(s)) : s \in SeqsUpTo(AddrChars, MaxAddrLen)}
OptMDs == {None} \cup {Some(md) : md \in AllMDs}

\* ------------------------------------------------------------------ errors
\* An error value: nil, io.EOF, or a gRPC status error (code and message).
Nil == [kind |-> "nil", code |-> "OK", msg |-> ""]
EOF == [kind |-> "EOF", code |-> "", msg |-> "EOF"]
Status(code, msg) == [kind |-> "status", code |-> code, msg |-> msg]
\* The errors a Director returns when it rejects a call.
RoutingErrs == {Status("Unimplemented", "Unknown method")}
\* The errors of grpc.NewClientStream.
EstablishErrs == {Status("Unavailable", "connection refused")}
\* The backend's non-success final status.
BackendErrs == {Status("Unavailable", "backend unavailable")}
\* A transport failure of one read or write of the relay.
RelayErrs == {Status("Internal", "stream reset")}
\* The error of a relay whose call context was canceled.
CanceledErr == Status("Canceled", "context canceled")

\* ------------------------------------------------------------------- calls
Calls == {"c1", "c2"}
\* The fully-qualified method name of the inbound call.
OrigMethod == "/pkg.Service/Ping"
\* The method names a Director may override it with ("" is no override).
Overrides == {"", "/pkg.Other/Pong"}
\* dir.BackendConn: the one backend connection the Director hands out,
\* shared by every call.
BackendConn == "conn1"
\* The payloads of the frames.
Frames == {"a", "b"}
\* The outgoing metadata a Director sets on the context it returns.
DirMD == [x \in {"authorization"} |-> <<ValB>>]
\* The inbound contexts of the calls of the handler specification.
CallPeers == {None, Some(TCPAddr(Ip4, 80))}
CallInMDs == {None, Some([x \in InKeys |-> IF x = "k" THEN <<ValA>> ELSE <<Ip6>>])}
ServerCtxs == {MkCtx(p, m, None) : p \in CallPeers, m \in CallInMDs}

VARIABLES
    pc,         \* pc[c]: where the handler of call c stands
    serverCtx,  \* serverCtx[c]: the inbound context (serverStream.Context())
    canceled,   \* canceled[c]: the inbound context has been canceled
    dirArg,     \* dirArg[c]: the method names the Director was invoked with
    dir,        \* dir[c]: what the Director returned
    clientCtx,  \* clientCtx[c]: the outgoing context (optional)
    outMethod,  \* outMethod[c]: fullMethodName after lines 80-82
    opened,     \* opened[c]: each NewClientStream call: context, method, error
    copyErr,    \* copyErr[c]: what biDirCopy returned (optional)
    doneArgs,   \* doneArgs[c]: the arguments dir.Done was invoked with
    cancels,    \* cancels[c]: how often each cancellation function was invoked
    result,     \* result[c]: the error the handler returned (optional)
    events,     \* events[c]: the steps the handler has taken, in order
    inbound,    \* inbound[c]: the client's side of the inbound stream
    outbound,   \* outbound[c]: the backend's side of the outbound stream
    s2c,        \* s2c[c]: the inbound -> outbound relay loop
    c2s,        \* c2s[c]: the outbound -> inbound relay loop
    fnIn,       \* the arguments of the function under test
    fnOut,      \* the context CopyMetadata returned (optional)
    fnIp,       \* the string RemoteIp returned (optional)
    director,   \* handler.director: the results the Director may give
    traffic,    \* the frames a side of a call sends: how many, which payloads
    conns,      \* conns[h]: the state of backend connection h (the Director's)
    fnHeap      \* the argument objects of the function under test, as they are

callVars == <<pc, serverCtx, canceled, dirArg, dir, clientCtx, outMethod,
              opened, copyErr, doneArgs, cancels, result, events>>
relayVars == <<inbound, outbound, s2c, c2s>>
fnVars == <<fnIn, fnOut, fnIp, fnHeap>>
envVars == <<director, traffic, conns>>
vars == <<callVars, relayVars, fnVars, envVars>>

\* The Director's result when it returns an error: no context, no cancel
\* function, a zero Routing Decision.
NoDecision(err) ==
    [err |-> err, ctx |-> Background, hasCancel |-> FALSE,
     method |-> "", hasDone |-> FALSE, conn |-> "nil"]
Decision(ctx, hasCancel, method, hasDone) ==
    [err |-> Nil, ctx |-> ctx, hasCancel |-> hasCancel,
     method |-> method, hasDone |-> hasDone, conn |-> BackendConn]

\* One relay loop: what it does next, and the frame it holds.
LoopInit == [at |-> "read", hold |-> <<>>, n |-> 0]
\* One side of a stream: the frames it has sent, the frames it has observed,
\* whether it has finished sending, its final status (backend only).
\* whether its peer has half-closed and how many frames it had sent by then.
SideInit == [sent |-> <<>>, recv |-> <<>>, closed |-> FALSE, status |-> None,
             halfClosed |-> FALSE, sentAtHalfClose |-> 0]

\* ----------------------------------------------------------------- handler
Log(c, es) == events' = [events EXCEPT ![c] = @ \o es]

\* The mutant of AfterDirector that goes on after a routing error.
AfterDirectorIgnoringErr(d) == "routed"
\* Lines 70-72: a routing error ends the handler at once.
AfterDirector(d) == IF d.err # Nil THEN "returned" ELSE "routed"

\* Lines 73-75: the cancellation function of the call: the Director's, or
\* the one derived with context.WithCancel.
CancelFn(d) == IF d.hasCancel THEN "director" ELSE "derived"

\* The mutant of RunDeferred that cancels the derived context only.
RunDeferredDerivedOnly(d, n) ==
    IF d.hasCancel THEN n ELSE [n EXCEPT !.derived = @ + 1]
\* Line 76: defer clientCancel(), run when the handler returns.
RunDeferred(d, n) == [n EXCEPT ![CancelFn(d)] = @ + 1]

\* The mutant of OutgoingContext that propagates the inbound metadata
\* whatever the Director has set.
OutgoingContextAlwaysCopy(ctx, sctx) == CopyMetadata(ctx, sctx)
\* Lines 77-79: the default propagation, unless the Director's context
\* carries outgoing metadata already.
OutgoingContext(ctx, sctx) ==
    IF ~IsSome(ctx.outMD) THEN CopyMetadata(ctx, sctx) ELSE ctx

\* The mutant of MethodFor that keeps the original name.
MethodForIgnoringOverride(d, fullMethodName) == fullMethodName
\* Lines 80-82: the Director's method override, when it gives one.
MethodFor(d, fullMethodName) ==
    IF Len(d.method) # 0 THEN d.method ELSE fullMethodName

\* The mutant of NormalizeErr that reports io.EOF as it is.
NormalizeErrKeepEOF(err) == err
\* Lines 89-91: io.EOF is no error.
NormalizeErr(err) == IF err = EOF THEN Nil ELSE err

\* The mutant of InvokeDone that reports success whatever the error.
InvokeDoneNil(d, args, err) == IF d.hasDone THEN Append(args, Nil) ELSE args
\* Lines 92-94: dir.Done(err), when the Director gave a callback.
InvokeDone(d, args, err) == IF d.hasDone THEN Append(args, err) ELSE args

\* Every result of a Director: a routing error, or a Routing Decision whose
\* context is a fresh one or one carrying outgoing metadata of its own, with
\* or without a cancellation function, a method override and a callback.
AllDecisions ==
    {NoDecision(e) : e \in RoutingErrs} \cup
    {Decision(ctx, hc, m, hd) :
        ctx \in {Background, NewOutgoingContext(Background, DirMD)},
        hc \in BOOLEAN, m \in Overrides, hd \in BOOLEAN}

\* Lines 66-72: the Director is invoked with the inbound context and the
\* method name; it rejects the call or returns a Routing Decision.
Director(c) ==
    /\ pc[c] = "start"
    /\ \E d \in director :
         /\ dir' = [dir EXCEPT ![c] = d]
         /\ pc' = [pc EXCEPT ![c] = AfterDirector(d)]
         /\ result' = [result EXCEPT ![c] =
                          IF AfterDirector(d) = "returned" THEN Some(d.err)
                          ELSE @]
         /\ Log(c, IF AfterDirector(d) = "returned"
                   THEN <<"director", "return">> ELSE <<"director">>)
    /\ dirArg' = [dirArg EXCEPT ![c] = Append(@, OrigMethod)]
    /\ UNCHANGED <<serverCtx, canceled, clientCtx, outMethod, opened, copyErr,
                   doneArgs, cancels, relayVars, fnVars, envVars>>

\* Lines 73-82: the cancellation function is fixed, the outgoing context
\* and the outgoing method name are built.
BuildContext(c) ==
    /\ pc[c] = "routed"
    /\ clientCtx' = [clientCtx EXCEPT ![c] =
                        Some(OutgoingContext(dir[c].ctx, serverCtx[c]))]
    /\ outMethod' = [outMethod EXCEPT ![c] = MethodFor(dir[c], @)]
    /\ pc' = [pc EXCEPT ![c] = "ctx"]
    /\ Log(c, <<"context">>)
    /\ UNCHANGED <<serverCtx, canceled, dirArg, dir, opened, copyErr,
                   doneArgs, cancels, result, relayVars, fnVars, envVars>>

\* The mutant of OpenStream that does not wait for the earlier steps: the
\* stream is opened on the context at hand before the Director has
\* returned or before the outgoing context is built.
OpenStreamEarly(c) ==
    /\ pc[c] \in {"start", "routed"}
    /\ opened' = [opened EXCEPT ![c] =
                     Append(@, [ctx |-> dir[c].ctx,
                                method |-> outMethod[c],
                                conn |-> dir[c].conn, err |-> Nil])]
    /\ pc' = [pc EXCEPT ![c] = "relay"]
    /\ Log(c, <<"open">>)
    /\ UNCHANGED <<serverCtx, canceled, dirArg, dir, clientCtx, outMethod,
                   copyErr, doneArgs, cancels, result, relayVars, fnVars, envVars>>
\* Lines 83-86, success: the outbound stream is open and the relay starts.
OpenStream(c) ==
    /\ pc[c] = "ctx"
    /\ opened' = [opened EXCEPT ![c] =
                     Append(@, [ctx |-> Get(clientCtx[c]),
                                method |-> outMethod[c],
                                conn |-> dir[c].conn, err |-> Nil])]
    /\ pc' = [pc EXCEPT ![c] = "relay"]
    /\ Log(c, <<"open">>)
    /\ UNCHANGED <<serverCtx, canceled, dirArg, dir, clientCtx, outMethod,
                   copyErr, doneArgs, cancels, result, relayVars, fnVars, envVars>>

\* The mutant of OpenStreamFails whose cancellation function lives in the
\* shared handler: the deferred call cancels every call's context.
OpenStreamFailsShared(c) ==
    /\ pc[c] = "ctx"
    /\ \E e \in EstablishErrs :
         /\ opened' = [opened EXCEPT ![c] =
                          Append(@, [ctx |-> Get(clientCtx[c]),
                                     method |-> outMethod[c],
                                     conn |-> dir[c].conn, err |-> e])]
         /\ result' = [result EXCEPT ![c] = Some(e)]
    /\ cancels' = [d \in Calls |-> RunDeferred(dir[d], cancels[d])]
    /\ pc' = [pc EXCEPT ![c] = "returned"]
    /\ Log(c, <<"open-failed", "cancel", "return">>)
    /\ UNCHANGED <<serverCtx, canceled, dirArg, dir, clientCtx, outMethod,
                   copyErr, doneArgs, relayVars, fnVars, envVars>>
\* Lines 83-86, failure: the handler returns the error of NewClientStream;
\* the deferred clientCancel runs.
OpenStreamFails(c) ==
    /\ pc[c] = "ctx"
    /\ \E e \in EstablishErrs :
         /\ opened' = [opened EXCEPT ![c] =
                          Append(@, [ctx |-> Get(clientCtx[c]),
                                     method |-> outMethod[c],
                                     conn |-> dir[c].conn, err |-> e])]
         /\ result' = [result EXCEPT ![c] = Some(e)]
    /\ cancels' = [cancels EXCEPT ![c] = RunDeferred(dir[c], @)]
    /\ pc' = [pc EXCEPT ![c] = "returned"]
    /\ Log(c, <<"open-failed", "cancel", "return">>)
    /\ UNCHANGED <<serverCtx, canceled, dirArg, dir, clientCtx, outMethod,
                   copyErr, doneArgs, relayVars, fnVars, envVars>>

\* The mutant of Finish that closes the backend connection when the call
\* ends.
FinishClosingConn(c) ==
    /\ pc[c] = "copied"
    /\ LET err == NormalizeErr(Get(copyErr[c]))
       IN  /\ doneArgs' = [doneArgs EXCEPT ![c] = InvokeDone(dir[c], @, err)]
           /\ result' = [result EXCEPT ![c] = Some(err)]
    /\ cancels' = [cancels EXCEPT ![c] = RunDeferred(dir[c], @)]
    /\ conns' = [conns EXCEPT ![dir[c].conn] = "closed"]
    /\ pc' = [pc EXCEPT ![c] = "returned"]
    /\ Log(c, IF dir[c].hasDone
              THEN <<"done", "cancel", "return">>
              ELSE <<"cancel", "return">>)
    /\ UNCHANGED <<serverCtx, canceled, dirArg, dir, clientCtx, outMethod,
                   opened, copyErr, relayVars, fnVars, director, traffic>>
\* The mutant of Finish that cancels the outgoing context first and
\* invokes dir.Done afterwards.
FinishCancelFirst(c) ==
    /\ pc[c] = "copied"
    /\ LET err == NormalizeErr(Get(copyErr[c]))
       IN  /\ doneArgs' = [doneArgs EXCEPT ![c] = InvokeDone(dir[c], @, err)]
           /\ result' = [result EXCEPT ![c] = Some(err)]
    /\ cancels' = [cancels EXCEPT ![c] = RunDeferred(dir[c], @)]
    /\ pc' = [pc EXCEPT ![c] = "returned"]
    /\ Log(c, IF dir[c].hasDone
              THEN <<"cancel", "done", "return">>
              ELSE <<"cancel", "return">>)
    /\ UNCHANGED <<serverCtx, canceled, dirArg, dir, clientCtx, outMethod,
                   opened, copyErr, relayVars, fnVars, envVars>>
\* Lines 89-96: biDirCopy has returned; io.EOF becomes nil, dir.Done is
\* invoked, the handler returns and the deferred clientCancel runs.
Finish(c) ==
    /\ pc[c] = "copied"
    /\ LET err == NormalizeErr(Get(copyErr[c]))
       IN  /\ doneArgs' = [doneArgs EXCEPT ![c] = InvokeDone(dir[c], @, err)]
           /\ result' = [result EXCEPT ![c] = Some(err)]
    /\ cancels' = [cancels EXCEPT ![c] = RunDeferred(dir[c], @)]
    /\ pc' = [pc EXCEPT ![c] = "returned"]
    /\ Log(c, IF dir[c].hasDone
              THEN <<"done", "cancel", "return">>
              ELSE <<"cancel", "return">>)
    /\ UNCHANGED <<serverCtx, canceled, dirArg, dir, clientCtx, outMethod,
                   opened, copyErr, relayVars, fnVars, envVars>>

\* The caller cancels the inbound call while the handler runs.
CancelInbound(c) ==
    /\ pc[c] \in {"start", "routed", "ctx", "relay"}
    /\ ~canceled[c]
    /\ canceled' = [canceled EXCEPT ![c] = TRUE]
    /\ UNCHANGED <<pc, serverCtx, dirArg, dir, clientCtx, outMethod, opened,
                   copyErr, doneArgs, cancels, result, events, relayVars,
                   fnVars, envVars>>

\* ------------------------------------------------------------------- relay
\* biDirCopy: two relay loops between the inbound and the outbound stream,
\* each holding at most one frame.

\* The mutant of Forward that loses the frame it holds.
ForwardDropping(recv, hold) == recv
\* One write of a relay loop: the frame it holds goes to the other stream.
Forward(recv, hold) == recv \o hold

\* One read of a relay loop: the next frame of the stream, in arrival order.
ReadFrame(sent, n) == <<sent[n + 1]>>

\* biDirCopy returns err: both loops stop.
CopyReturns(c, err) ==
    /\ copyErr' = [copyErr EXCEPT ![c] = Some(err)]
    /\ pc' = [pc EXCEPT ![c] = "copied"]
    /\ Log(c, <<"relay-end">>)
    /\ UNCHANGED <<serverCtx, canceled, dirArg, dir, clientCtx, outMethod,
                   opened, doneArgs, cancels, result, fnVars, envVars>>

\* The client sends one more frame on the inbound stream (a frame sent after
\* the relay has ended is read by no one and is left out).
ClientSend(c) ==
    /\ pc[c] \in {"start", "routed", "ctx", "relay"}
    /\ ~inbound[c].closed
    /\ Len(inbound[c].sent) < traffic.limit[c]
    /\ \E f \in traffic.payloads :
         inbound' = [inbound EXCEPT ![c].sent = Append(@, f)]
    /\ UNCHANGED <<callVars, outbound, s2c, c2s, fnVars, envVars>>

\* The client stops sending.
ClientCloseSend(c) ==
    /\ pc[c] \in {"start", "routed", "ctx", "relay"}
    /\ ~inbound[c].closed
    /\ inbound' = [inbound EXCEPT ![c].closed = TRUE]
    /\ UNCHANGED <<callVars, outbound, s2c, c2s, fnVars, envVars>>

\* The backend sends one more frame on the outbound stream.
BackendSend(c) ==
    /\ pc[c] = "relay"
    /\ ~outbound[c].closed
    /\ Len(outbound[c].sent) < traffic.limit[c]
    /\ \E f \in traffic.payloads :
         outbound' = [outbound EXCEPT ![c].sent = Append(@, f)]
    /\ UNCHANGED <<callVars, inbound, s2c, c2s, fnVars, envVars>>

\* The backend ends the call with its final status.
BackendFinish(c) ==
    /\ pc[c] = "relay"
    /\ ~outbound[c].closed
    /\ \E st \in {Nil} \cup BackendErrs :
         outbound' = [outbound EXCEPT ![c].closed = TRUE,
                                      ![c].status = Some(st)]
    /\ UNCHANGED <<callVars, inbound, s2c, c2s, fnVars, envVars>>

\* Inbound -> outbound loop: read one frame from the inbound stream.
S2CRead(c) ==
    /\ pc[c] = "relay"
    /\ s2c[c].at = "read"
    /\ s2c[c].n < Len(inbound[c].sent)
    /\ s2c' = [s2c EXCEPT ![c] =
                  [at |-> "write", hold |-> ReadFrame(inbound[c].sent, @.n),
                   n |-> @.n + 1]]
    /\ UNCHANGED <<callVars, inbound, outbound, c2s, fnVars, envVars>>

\* Inbound -> outbound loop: write the frame to the outbound stream.
S2CWrite(c) ==
    /\ pc[c] = "relay"
    /\ s2c[c].at = "write"
    /\ outbound' = [outbound EXCEPT ![c].recv = Forward(@, s2c[c].hold)]
    /\ s2c' = [s2c EXCEPT ![c].at = "read", ![c].hold = <<>>]
    /\ UNCHANGED <<callVars, inbound, c2s, fnVars, envVars>>

\* The mutant of S2CEndOfInput that ends the whole call at the client's end
\* of input.
S2CEndOfInputEndsCall(c) ==
    /\ pc[c] = "relay"
    /\ s2c[c].at = "read"
    /\ s2c[c].n = Len(inbound[c].sent)
    /\ inbound[c].closed
    /\ outbound' = [outbound EXCEPT ![c].halfClosed = TRUE,
                                  ![c].sentAtHalfClose =
                                      Len(outbound[c].sent)]
    /\ s2c' = [s2c EXCEPT ![c].at = "done"]
    /\ copyErr' = [copyErr EXCEPT ![c] = Some(EOF)]
    /\ pc' = [pc EXCEPT ![c] = "copied"]
    /\ Log(c, <<"relay-end">>)
    /\ UNCHANGED <<serverCtx, canceled, dirArg, dir, clientCtx, outMethod,
                   opened, doneArgs, cancels, result, inbound, c2s, fnVars,
                   envVars>>
\* Inbound -> outbound loop: end of input; the outbound send direction is
\* half-closed and the loop ends, the call goes on.
S2CEndOfInput(c) ==
    /\ pc[c] = "relay"
    /\ s2c[c].at = "read"
    /\ s2c[c].n = Len(inbound[c].sent)
    /\ inbound[c].closed
    /\ outbound' = [outbound EXCEPT ![c].halfClosed = TRUE,
                                  ![c].sentAtHalfClose =
                                      Len(outbound[c].sent)]
    /\ s2c' = [s2c EXCEPT ![c].at = "done"]
    /\ UNCHANGED <<callVars, inbound, c2s, fnVars, envVars>>

\* Inbound -> outbound loop: a read or write fails; the call is aborted.
S2CFails(c) ==
    /\ pc[c] = "relay"
    /\ s2c[c].at \in {"read", "write"}
    /\ \E e \in RelayErrs : CopyReturns(c, e)
    /\ UNCHANGED relayVars

\* Outbound -> inbound loop: read one frame from the outbound stream.
C2SRead(c) ==
    /\ pc[c] = "relay"
    /\ c2s[c].at = "read"
    /\ c2s[c].n < Len(outbound[c].sent)
    /\ c2s' = [c2s EXCEPT ![c] =
                  [at |-> "write", hold |-> ReadFrame(outbound[c].sent, @.n),
                   n |-> @.n + 1]]
    /\ UNCHANGED <<callVars, inbound, outbound, s2c, fnVars, envVars>>

\* Outbound -> inbound loop: write the frame to the inbound stream.
C2SWrite(c) ==
    /\ pc[c] = "relay"
    /\ c2s[c].at = "write"
    /\ inbound' = [inbound EXCEPT ![c].recv = Forward(@, c2s[c].hold)]
    /\ c2s' = [c2s EXCEPT ![c].at = "read", ![c].hold = <<>>]
    /\ UNCHANGED <<callVars, outbound, s2c, fnVars, envVars>>

\* Outbound -> inbound loop: the backend has ended the call with success;
\* the loop ends cleanly.
C2SEndOfInput(c) ==
    /\ pc[c] = "relay"
    /\ c2s[c].at = "read"
    /\ c2s[c].n = Len(outbound[c].sent)
    /\ outbound[c].status = Some(Nil)
    /\ c2s' = [c2s EXCEPT ![c].at = "done"]
    /\ UNCHANGED <<callVars, inbound, outbound, s2c, fnVars, envVars>>

\* Outbound -> inbound loop: the backend has ended the call with a
\* non-success status; the call ends with that status.
C2SBackendStatus(c) ==
    /\ pc[c] = "relay"
    /\ c2s[c].at = "read"
    /\ c2s[c].n = Len(outbound[c].sent)
    /\ IsSome(outbound[c].status)
    /\ Get(outbound[c].status) # Nil
    /\ CopyReturns(c, Get(outbound[c].status))
    /\ UNCHANGED relayVars

\* Outbound -> inbound loop: a read or write fails; the call is aborted.
C2SFails(c) ==
    /\ pc[c] = "relay"
    /\ c2s[c].at \in {"read", "write"}
    /\ \E e \in RelayErrs : CopyReturns(c, e)
    /\ UNCHANGED relayVars

\* Both directions have reached a clean end of input: the relay ends with
\* the plain end-of-stream signal, or with no error.
RelayEnds(c) ==
    /\ pc[c] = "relay"
    /\ s2c[c].at = "done"
    /\ c2s[c].at = "done"
    /\ \E e \in {EOF, Nil} : CopyReturns(c, e)
    /\ UNCHANGED relayVars

\* The mutant of RelayCanceled in which a loop blocked on the backend does
\* not see the cancellation before the backend has ended the stream.
RelayCanceledAfterBackend(c) ==
    /\ pc[c] = "relay"
    /\ canceled[c]
    /\ outbound[c].closed
    /\ CopyReturns(c, CanceledErr)
    /\ UNCHANGED relayVars
\* The call's context is canceled: both loops are unblocked and exit.
RelayCanceled(c) ==
    /\ pc[c] = "relay"
    /\ canceled[c]
    /\ CopyReturns(c, CanceledErr)
    /\ UNCHANGED relayVars

\* ---------------------------------------------------------- specifications
FnIdle ==
    /\ fnIn = [ctx |-> Background, serverCtx |-> Background]
    /\ fnHeap = fnIn
    /\ fnOut = None
    /\ fnIp = None

\* The calls of `live` are about to enter the handler; nothing else has
\* happened. The Director's backend connection is up.
InitCalls(live) ==
    /\ conns = [h \in {BackendConn} |-> "ready"]
    /\ pc = [c \in Calls |-> IF c \in live THEN "start" ELSE "off"]
    /\ canceled = [c \in Calls |-> FALSE]
    /\ dirArg = [c \in Calls |-> <<>>]
    /\ dir = [c \in Calls |-> NoDecision(Nil)]
    /\ clientCtx = [c \in Calls |-> None]
    /\ outMethod = [c \in Calls |-> OrigMethod]
    /\ opened = [c \in Calls |-> <<>>]
    /\ copyErr = [c \in Calls |-> None]
    /\ doneArgs = [c \in Calls |-> <<>>]
    /\ cancels = [c \in Calls |-> [director |-> 0, derived |-> 0]]
    /\ result = [c \in Calls |-> None]
    /\ events = [c \in Calls |-> <<>>]
    /\ inbound = [c \in Calls |-> SideInit]
    /\ outbound = [c \in Calls |-> SideInit]
    /\ s2c = [c \in Calls |-> LoopInit]
    /\ c2s = [c \in Calls |-> LoopInit]

\* One call through the handler, with any inbound context of ServerCtxs and
\* any Director.
Init ==
    /\ InitCalls({"c1"})
    /\ \E sc \in ServerCtxs :
         serverCtx = [c \in Calls |-> IF c = "c1" THEN sc ELSE Background]
    /\ director = AllDecisions
    /\ traffic = [limit |-> [c \in Calls |-> HandlerFrames],
                  payloads |-> {"a"}]
    /\ FnIdle

\* One call through the handler with longer streams; the Director gives a
\* callback and leaves the rest to the handler.
InitRelay ==
    /\ InitCalls({"c1"})
    /\ serverCtx = [c \in Calls |-> Background]
    /\ director = {Decision(Background, FALSE, "", TRUE)}
    /\ traffic = [limit |-> [c \in Calls |-> MaxFrames], payloads |-> Frames]
    /\ FnIdle

HandlerStep(c) ==
    \/ Director(c)
    \/ BuildContext(c)
    \/ OpenStream(c)
    \/ OpenStreamFails(c)
    \/ Finish(c)
    \/ CancelInbound(c)

RelayStep(c) ==
    \/ ClientSend(c)
    \/ ClientCloseSend(c)
    \/ BackendSend(c)
    \/ BackendFinish(c)
    \/ S2CRead(c)
    \/ S2CWrite(c)
    \/ S2CEndOfInput(c)
    \/ S2CFails(c)
    \/ C2SRead(c)
    \/ C2SWrite(c)
    \/ C2SEndOfInput(c)
    \/ C2SBackendStatus(c)
    \/ C2SFails(c)
    \/ RelayEnds(c)
    \/ RelayCanceled(c)

Next == \E c \in Calls : HandlerStep(c) \/ RelayStep(c)

Spec == Init /\ [][Next]_vars
SpecRelay == InitRelay /\ [][Next]_vars

\* The handler specification with the scheduling the runtime gives: a
\* canceled context unblocks the relay loops, and the handler's goroutine
\* runs on once biDirCopy has returned.
InitLive ==
    /\ InitCalls({"c1"})
    /\ serverCtx = [c \in Calls |-> Background]
    /\ director = {Decision(Background, hc, "", hd) : hc, hd \in BOOLEAN}
    /\ traffic = [limit |-> [c \in Calls |-> HandlerFrames],
                  payloads |-> {"a"}]
    /\ FnIdle
SpecLive ==
    /\ InitLive /\ [][Next]_vars
    /\ \A c \in Calls : WF_vars(RelayCanceled(c)) /\ WF_vars(Finish(c))

\* Two calls in flight through the same handler, sharing the Director and
\* its backend connection: the Director rejects a call or routes it with a
\* callback; the first call carries frames, the second none.
InitConc ==
    /\ InitCalls(Calls)
    /\ serverCtx = [c \in Calls |-> Background]
    /\ director = {NoDecision(e) : e \in RoutingErrs} \cup
                  {Decision(Background, FALSE, "", TRUE)}
    /\ traffic = [limit |-> [c \in Calls |->
                                IF c = "c1" THEN ConcFrames ELSE 0],
                  payloads |-> {"a"}]
    /\ FnIdle
SpecConc == InitConc /\ [][Next]_vars

\* --------------------------------------------- the propagation functions
\* CopyMetadata and RemoteIp on their own: any inbound context (peer and
\* metadata) and an outgoing base context with or without metadata.
FnInputs ==
    {[ctx |-> MkCtx(None, None, o), serverCtx |-> MkCtx(p, m, None)] :
        o \in {None, Some(DirMD)}, p \in AllPeers, m \in OptMDs}

InitMD ==
    /\ InitCalls({})
    /\ serverCtx = [c \in Calls |-> Background]
    /\ director = AllDecisions
    /\ traffic = [limit |-> [c \in Calls |-> 0], payloads |-> {}]
    /\ fnIn \in FnInputs
    /\ fnHeap = fnIn
    /\ fnOut = None
    /\ fnIp = None

CallCopyMetadata ==
    /\ fnOut = None
    /\ fnOut' = Some(CopyMetadata(fnIn.ctx, fnIn.serverCtx))
    /\ fnHeap' = ArgsAfterCopyMetadata(fnHeap.ctx, fnHeap.serverCtx)
    /\ UNCHANGED <<callVars, relayVars, envVars, fnIn, fnIp>>

CallRemoteIp ==
    /\ fnIp = None
    /\ fnIp' = Some(RemoteIp(fnIn.serverCtx))
    /\ UNCHANGED <<callVars, relayVars, envVars, fnIn, fnOut, fnHeap>>

NextMD == CallCopyMetadata \/ CallRemoteIp

SpecMD == InitMD /\ [][NextMD]_vars

\* ------------------------------------------------------------------ claims
Returned(c) == pc[c] = "returned"
\* The Director has returned a Routing Decision for call c.
Routed(c) == dir[c].err = Nil /\ Len(dirArg[c]) > 0
\* The attempt to open the outbound stream of call c has failed.
EstablishFailed(c) == Len(opened[c]) > 0 /\ opened[c][1].err # Nil
\* No frame of call c has been relayed in either direction.
NoFrameRelayed(c) ==
    /\ outbound[c].recv = <<>> /\ inbound[c].recv = <<>>
    /\ s2c[c] = LoopInit /\ c2s[c] = LoopInit
    /\ ~outbound[c].halfClosed

\* C1: for a call the Director returned a Routing Decision for, the call's
\* cancellation function (the Director's, or the derived one when the
\* Director gave none) has been invoked exactly once when the handler has
\* returned, on every exit path; the other one never, and none twice.
C1_CancelExactlyOnce ==
    \A c \in Calls :
        /\ cancels[c].director <= 1 /\ cancels[c].derived <= 1
        /\ (Returned(c) /\ Routed(c)) =>
              IF dir[c].hasCancel
              THEN cancels[c] = [director |-> 1, derived |-> 0]
              ELSE cancels[c] = [director |-> 0, derived |-> 1]
\* C1 witness: a canceled call has returned and the Director's own
\* cancellation function has run.
C1_Witness ==
    \E c \in Calls :
        /\ Returned(c) /\ Routed(c) /\ dir[c].hasCancel
        /\ copyErr[c] = Some(CanceledErr)
        /\ cancels[c].director = 1

\* C2 (as claimed): for a call whose Routing Decision carries a completion
\* callback, the callback has been invoked exactly once when the handler
\* has returned, with the error the handler returns.
C2_DoneExactlyOnce ==
    \A c \in Calls :
        (Returned(c) /\ Routed(c) /\ dir[c].hasDone) =>
            doneArgs[c] = <<Get(result[c])>>

\* C3 (as claimed): when the outbound stream cannot be opened, the handler
\* returns that error, no frame is relayed and the completion callback is
\* invoked with that same error.
C3_EstablishErrorReported ==
    \A c \in Calls :
        (Returned(c) /\ EstablishFailed(c)) =>
            /\ result[c] = Some(opened[c][1].err)
            /\ NoFrameRelayed(c)
            /\ dir[c].hasDone => doneArgs[c] = <<opened[c][1].err>>

\* C4: when the Director returns a routing error, the handler returns
\* exactly that error, and no outgoing context is built, no outbound stream
\* is opened and no frame is relayed for that call.
C4_RoutingErrorEndsCall ==
    \A c \in Calls :
        dir[c].err # Nil =>
            /\ Returned(c)
            /\ result[c] = Some(dir[c].err)
            /\ clientCtx[c] = None
            /\ opened[c] = <<>>
            /\ NoFrameRelayed(c)
            /\ events[c] = <<"director", "return">>
\* C4 witness: the Director has rejected a call whose client had already
\* sent a frame.
C4_Witness ==
    \E c \in Calls :
        /\ Returned(c) /\ dir[c].err \in RoutingErrs
        /\ Len(inbound[c].sent) > 0

\* C5: when the relay ends with io.EOF, the handler returns nil and the
\* completion callback receives nil; io.EOF reaches neither.
C5_EOFNormalized ==
    \A c \in Calls :
        /\ result[c] # Some(EOF)
        /\ \A i \in 1..Len(doneArgs[c]) : doneArgs[c][i] # EOF
        /\ (Returned(c) /\ copyErr[c] = Some(EOF)) =>
              /\ result[c] = Some(Nil)
              /\ dir[c].hasDone => doneArgs[c] = <<Nil>>
\* C5 witness: a relay that ended with io.EOF, its callback invoked.
C5_Witness ==
    \E c \in Calls :
        /\ Returned(c) /\ copyErr[c] = Some(EOF)
        /\ doneArgs[c] = <<Nil>>

\* C6: when the relay ends with an error other than io.EOF, the handler
\* returns that error as it is (same code, same message) and the
\* completion callback receives the error the handler returns.
C6_RelayErrorVerbatim ==
    \A c \in Calls :
        (Returned(c) /\ IsSome(copyErr[c]) /\ Get(copyErr[c]) \notin {EOF, Nil}) =>
            /\ result[c] = copyErr[c]
            /\ dir[c].hasDone => doneArgs[c] = <<Get(result[c])>>
\* C6 witness: the backend ended the call with "backend unavailable" and
\* the caller and the callback got that status.
C6_Witness ==
    \E c \in Calls :
        /\ Returned(c)
        /\ outbound[c].status = Some(Status("Unavailable", "backend unavailable"))
        /\ result[c] = outbound[c].status
        /\ doneArgs[c] = <<Status("Unavailable", "backend unavailable")>>

\* C7: when the Director's context carries outgoing metadata, the context
\* the outbound stream is opened with carries exactly that metadata: no
\* inbound key, no forwarded-address key.
C7_DirectorMetadataWins ==
    \A c \in Calls :
        (Routed(c) /\ IsSome(dir[c].ctx.outMD)) =>
            /\ IsSome(clientCtx[c]) => Get(clientCtx[c]).outMD = dir[c].ctx.outMD
            /\ \A i \in 1..Len(opened[c]) :
                  /\ opened[c][i].ctx.outMD = dir[c].ctx.outMD
                  /\ DOMAIN Get(opened[c][i].ctx.outMD) \cap
                        (InKeys \cup {XForwardedFor}) = {}
\* C7 witness: a stream opened with the Director's metadata although the
\* inbound context had metadata and a peer.
C7_Witness ==
    \E c \in Calls :
        /\ Len(opened[c]) = 1
        /\ opened[c][1].ctx.outMD = Some(DirMD)
        /\ IsSome(serverCtx[c].inMD) /\ IsSome(serverCtx[c].peer)

\* The caller's IP of an inbound context with a TCP peer.
TcpIp(sctx) == Get(sctx.peer).ip
HasTcpPeer(sctx) == IsSome(sctx.peer) /\ Get(sctx.peer).kind = "tcp"

\* C8: with inbound metadata and a derivable caller address, the outgoing
\* metadata holds every inbound key with its values as they were, and the
\* caller's IP as the last value of x-forwarded-for, behind the values that
\* key had.
C8_CopyAppendsForwardedFor ==
    (/\ IsSome(fnOut)
     /\ IsSome(fnIn.serverCtx.inMD)
     /\ IsSome(fnIp) /\ Len(Get(fnIp)) # 0) =>
        LET in == Get(fnIn.serverCtx.inMD)
            ip == IF HasTcpPeer(fnIn.serverCtx) THEN TcpIp(fnIn.serverCtx)
                  ELSE Get(fnIp)
            old == IF "x-forwarded-for" \in DOMAIN in
                   THEN in["x-forwarded-for"] ELSE <<>>
        IN  /\ IsSome(Get(fnOut).outMD)
            /\ LET out == Get(Get(fnOut).outMD)
               IN  /\ DOMAIN out = DOMAIN in \cup {"x-forwarded-for"}
                   /\ \A k \in DOMAIN in \ {"x-forwarded-for"} : out[k] = in[k]
                   /\ out["x-forwarded-for"] = old \o <<ip>>
\* C8 witness: inbound metadata with a forwarded-address entry of two
\* values and a TCP peer; the result has three.
C8_Witness ==
    /\ IsSome(fnOut) /\ IsSome(fnIp)
    /\ HasTcpPeer(fnIn.serverCtx)
    /\ IsSome(fnIn.serverCtx.inMD)
    /\ DOMAIN Get(fnIn.serverCtx.inMD) = InKeys
    /\ Len(Get(fnIn.serverCtx.inMD)["x-forwarded-for"]) = 2
    /\ Len(Get(Get(fnOut).outMD)["x-forwarded-for"]) = 3

\* C9: without inbound metadata, the result carries the one
\* x-forwarded-for entry with the caller's IP and nothing else when an
\* address is derivable, and is the given context itself when none is.
C9_NoInboundMetadata ==
    (/\ IsSome(fnOut)
     /\ ~IsSome(fnIn.serverCtx.inMD)
     /\ IsSome(fnIp)) =>
        IF Len(Get(fnIp)) # 0
        THEN LET ip == IF HasTcpPeer(fnIn.serverCtx)
                       THEN TcpIp(fnIn.serverCtx) ELSE Get(fnIp)
             IN  /\ Get(fnOut).outMD =
                        Some([k \in {"x-forwarded-for"} |-> <<ip>>])
                 /\ Get(fnOut).peer = fnIn.ctx.peer
                 /\ Get(fnOut).inMD = fnIn.ctx.inMD
        ELSE Get(fnOut) = fnIn.ctx
\* C9 witness: no inbound metadata, a TCP peer, and a result that carries
\* the single entry.
C9_Witness ==
    /\ IsSome(fnOut) /\ IsSome(fnIp)
    /\ ~IsSome(fnIn.serverCtx.inMD)
    /\ HasTcpPeer(fnIn.serverCtx)
    /\ IsSome(Get(fnOut).outMD)
    /\ DOMAIN Get(Get(fnOut).outMD) = {"x-forwarded-for"}

\* C10: in each direction the receiving side observes the frames the
\* sending side sent, the same payloads in the same order, none lost,
\* doubled or reordered; a loop holds at most one frame and reads the next
\* one only after it has written the one it held; a direction that has
\* reached its clean end has delivered every frame.
C10_FrameFidelity ==
    \A c \in Calls :
        /\ Len(s2c[c].hold) <= 1 /\ Len(c2s[c].hold) <= 1
        /\ s2c[c].at # "write" => s2c[c].hold = <<>>
        /\ c2s[c].at # "write" => c2s[c].hold = <<>>
        /\ IsPrefix(outbound[c].recv \o s2c[c].hold, inbound[c].sent)
        /\ IsPrefix(inbound[c].recv \o c2s[c].hold, outbound[c].sent)
        /\ s2c[c].at = "done" => outbound[c].recv = inbound[c].sent
        /\ c2s[c].at = "done" => inbound[c].recv = outbound[c].sent
\* C10 witness: a call that ended in success after MaxFrames frames, not
\* all alike, went each way.
C10_Witness ==
    \E c \in Calls :
        /\ Returned(c) /\ result[c] = Some(Nil)
        /\ Len(inbound[c].sent) = MaxFrames
        /\ Len(outbound[c].sent) = MaxFrames
        /\ inbound[c].sent[1] # inbound[c].sent[2]
        /\ outbound[c].sent[1] # outbound[c].sent[2]
        /\ outbound[c].recv = inbound[c].sent
        /\ inbound[c].recv = outbound[c].sent

\* What the backend sent after the client's half-close, and what of it the
\* client has observed.
SentAfterHalfClose(c) ==
    SubSeq(outbound[c].sent, outbound[c].sentAtHalfClose + 1,
           Len(outbound[c].sent))
RecvAfterHalfClose(c) ==
    SubSeq(inbound[c].recv, outbound[c].sentAtHalfClose + 1,
           Len(inbound[c].recv))

\* C11: the client's end of input is no error and does not end the call:
\* the step that meets it half-closes the outbound send direction, leaves
\* the call relaying with no result and the other loop as it was; the
\* frames the backend sends after it reach the client in order, and all of
\* them when the backend itself has ended the stream.
C11_HalfCloseKeepsRelaying ==
    /\ [][\A c \in Calls :
            (s2c[c].at = "read" /\ s2c'[c].at = "done") =>
                /\ inbound[c].closed
                /\ pc'[c] = "relay" /\ copyErr'[c] = None
                /\ outbound'[c].halfClosed
                /\ c2s'[c] = c2s[c]]_vars
    /\ [](\A c \in Calls :
            outbound[c].halfClosed =>
                /\ IsPrefix(RecvAfterHalfClose(c), SentAfterHalfClose(c))
                /\ (c2s[c].at = "done" =>
                      RecvAfterHalfClose(c) = SentAfterHalfClose(c)))
\* C11 witness: the client half-closed before the backend had sent
\* anything; MaxFrames frames of the backend reached it afterwards and the
\* call ended in success.
C11_Witness ==
    \E c \in Calls :
        /\ Returned(c) /\ result[c] = Some(Nil)
        /\ outbound[c].halfClosed /\ outbound[c].sentAtHalfClose = 0
        /\ Len(outbound[c].sent) = MaxFrames
        /\ RecvAfterHalfClose(c) = outbound[c].sent

\* The inbound context of call c is canceled while the relay runs and the
\* backend has sent nothing.
CanceledBeforeResponse(c) ==
    /\ canceled[c] /\ pc[c] = "relay"
    /\ outbound[c].sent = <<>> /\ ~outbound[c].closed

\* C12: a call canceled before the backend responds comes to its end: the
\* relay is over (no loop is left relaying), the handler has returned and
\* the call's cancellation function has been invoked exactly once.
C12_CancelEndsCall ==
    \A c \in Calls :
        CanceledBeforeResponse(c) ~>
            (/\ Returned(c)
             /\ IsSome(copyErr[c])
             /\ cancels[c][CancelFn(dir[c])] = 1
             /\ cancels[c].director + cancels[c].derived = 1)
\* C12 witness: a call canceled while the backend was silent has returned
\* with the cancellation error, its cancellation function invoked once.
C12_Witness ==
    \E c \in Calls :
        /\ Returned(c) /\ canceled[c]
        /\ outbound[c].sent = <<>> /\ ~outbound[c].closed
        /\ result[c] = Some(CanceledErr)
        /\ cancels[c].director + cancels[c].derived = 1

\* Everything the model holds of call c.
CallState(c) ==
    <<pc[c], serverCtx[c], canceled[c], dirArg[c], dir[c], clientCtx[c],
      outMethod[c], opened[c], copyErr[c], doneArgs[c], cancels[c],
      result[c], events[c], inbound[c], outbound[c], s2c[c], c2s[c]>>
\* The failure call c ended with, if it failed.
Failed(c) ==
    /\ Returned(c)
    /\ \/ dir[c].err # Nil
       \/ EstablishFailed(c)
       \/ (IsSome(copyErr[c]) /\ Get(copyErr[c]) \notin {EOF, Nil})

\* C13: with two calls in flight, a step of one call (a routing error, an
\* establishment error, a relay error or any other step) changes nothing
\* of the other call: not its outcome, its frames, its cancellations, its
\* callback; the shared Director and backend connection stay as they are;
\* and what a call returns is its own routing, establishment or relay
\* result.
C13_CallsIsolated ==
    /\ [][/\ \A c \in Calls :
               CallState(c)' # CallState(c) =>
                   \A d \in Calls \ {c} : CallState(d)' = CallState(d)
          /\ director' = director /\ conns' = conns]_vars
    /\ [](\A c \in Calls :
            Returned(c) =>
                result[c] = Some(
                    IF dir[c].err # Nil THEN dir[c].err
                    ELSE IF EstablishFailed(c) THEN opened[c][1].err
                    ELSE IF Get(copyErr[c]) = EOF THEN Nil
                    ELSE Get(copyErr[c])))
\* C13 witness: the second call failed to open its stream, the first one
\* relayed its frames both ways and ended in success, callback and
\* cancellation once each.
C13_Witness ==
    /\ Failed("c2") /\ EstablishFailed("c2")
    /\ Returned("c1") /\ result["c1"] = Some(Nil)
    /\ Len(inbound["c1"].sent) = ConcFrames
    /\ outbound["c1"].recv = inbound["c1"].sent
    /\ Len(outbound["c1"].sent) = ConcFrames
    /\ inbound["c1"].recv = outbound["c1"].sent
    /\ doneArgs["c1"] = <<Nil>>
    /\ cancels["c1"] = [director |-> 0, derived |-> 1]
    /\ opened["c1"][1].conn = opened["c2"][1].conn

\* C14: the core never creates, closes or mutates the backend connection
\* of the Director: no step changes the connections, and on every exit of
\* a routed call (success, establishment error, relay error,
\* cancellation) the connection the Director named is still ready, for
\* the other call and for later ones.
C14_BackendConnUntouched ==
    /\ [][DOMAIN conns' = DOMAIN conns
          /\ \A h \in DOMAIN conns : conns'[h] = conns[h]]_vars
    /\ [](\A c \in Calls :
            (Routed(c) /\ Returned(c)) =>
                /\ dir[c].conn \in DOMAIN conns
                /\ conns[dir[c].conn] = "ready")
\* C14 witness: the first call ended on a relay failure after its stream
\* was opened on the connection; the second call, routed to the same
\* connection, has its context built and is about to open its stream.
C14_Witness ==
    /\ Returned("c1") /\ Routed("c1")
    /\ opened["c1"] # <<>> /\ opened["c1"][1].conn = BackendConn
    /\ Failed("c1") /\ IsSome(copyErr["c1"])
    /\ pc["c2"] = "ctx" /\ dir["c2"].conn = BackendConn
    /\ conns[BackendConn] = "ready"

\* The orders in which one call may take its steps.
CallOrders ==
    { <<"director", "return">>,
      <<"director", "context", "open-failed", "cancel", "return">>,
      <<"director", "context", "open", "relay-end", "cancel", "return">>,
      <<"director", "context", "open", "relay-end", "done", "cancel",
        "return">> }
\* A frame of call c has been relayed or is held by a relay loop.
RelayActive(c) ==
    \/ outbound[c].recv # <<>> \/ inbound[c].recv # <<>>
    \/ s2c[c].n > 0 \/ c2s[c].n > 0

\* C15: the steps of a call come in one fixed order, each at most once:
\* the Director exactly once (with the call under way), then the outgoing
\* context, then the outbound stream, then the relay, then the completion
\* callback; no stream is opened before the Director has returned and the
\* context is built, no frame is relayed before the stream is open, and
\* the callback is invoked only after the relay has ended.
C15_FixedStepOrder ==
    \A c \in Calls :
        /\ \E o \in CallOrders : IsPrefix(events[c], o)
        /\ Len(dirArg[c]) = (IF pc[c] \in {"off", "start"} THEN 0 ELSE 1)
        /\ Len(opened[c]) <= 1
        /\ Len(doneArgs[c]) <= 1
        /\ opened[c] # <<>> =>
               /\ dirArg[c] # <<>> /\ dir[c] \in director
               /\ IsSome(clientCtx[c])
               /\ opened[c][1].ctx = Get(clientCtx[c])
        /\ RelayActive(c) => (opened[c] # <<>> /\ opened[c][1].err = Nil)
        /\ pc[c] = "relay" => (doneArgs[c] = <<>> /\ copyErr[c] = None)
        /\ doneArgs[c] # <<>> =>
               (IsSome(copyErr[c]) /\ pc[c] = "returned")
\* C15 witness: a call went through every step, frames relayed both ways,
\* the callback invoked after the relay.
C15_Witness ==
    /\ events["c1"] = <<"director", "context", "open", "relay-end", "done",
                        "cancel", "return">>
    /\ outbound["c1"].recv # <<>> /\ inbound["c1"].recv # <<>>
    /\ Len(dirArg["c1"]) = 1 /\ Len(opened["c1"]) = 1
    /\ Len(doneArgs["c1"]) = 1

\* C16: the outbound stream is opened with the Routing Decision's method
\* override when that is non-empty and with the call's original method
\* name otherwise, and the Director is given the original name, whatever
\* it then overrides.
C16_MethodOverride ==
    \A c \in Calls :
        /\ \A i \in DOMAIN dirArg[c] : dirArg[c][i] = OrigMethod
        /\ \A i \in DOMAIN opened[c] :
               opened[c][i].method =
                   (IF dir[c].method # "" THEN dir[c].method ELSE OrigMethod)
\* C16 witness: a stream opened under the override of a Director that was
\* asked about the original method.
C16_Witness ==
    /\ dirArg["c1"] = <<OrigMethod>>
    /\ dir["c1"].method = "/pkg.Other/Pong"
    /\ opened["c1"] # <<>>
    /\ opened["c1"][1].method = "/pkg.Other/Pong"
    /\ opened["c1"][1].method # OrigMethod

\* The digits of AddrChars: what a port is written with.
Digits == {"1"}
\* s has the form host:port: a colon followed by digits (or nothing) up to
\* the end of s.
HasPortSuffix(s) ==
    \E i \in 1..Len(s) :
        s[i] = ":" /\ \A j \in (i + 1)..Len(s) : s[j] \in Digits
\* The host of an address of the form host:port.
HostOf(s) ==
    LET i == CHOOSE k \in 1..Len(s) :
                 s[k] = ":" /\ \A j \in (k + 1)..Len(s) : s[j] \in Digits
    IN  SubSeq(s, 1, i - 1)

\* C17: RemoteIp removes the port suffix and nothing else: the IP literal
\* of a TCP address, the host of any other address host:port, an address
\* without a port suffix as it is, and the empty string when the context
\* has no peer.
C17_RemoteIpStripsPortOnly ==
    IsSome(fnIp) =>
        LET sctx == fnIn.serverCtx
            ip == Get(fnIp)
        IN  IF ~IsSome(sctx.peer) THEN ip = <<>>
            ELSE IF HasTcpPeer(sctx) THEN ip = TcpIp(sctx)
            ELSE LET s == Get(sctx.peer).s
                 IN  IF HasPortSuffix(s) THEN ip = HostOf(s) ELSE ip = s

\* C18: CopyMetadata copies: once it has returned, the inbound context and
\* its metadata are what they were before the call, key by key and value
\* by value (the caller's address appended to the outgoing copy is not in
\* the inbound metadata), and so is the context given as the outgoing
\* base.
C18_CopyLeavesArgsAlone ==
    IsSome(fnOut) =>
        /\ fnHeap.serverCtx = fnIn.serverCtx
        /\ fnHeap.ctx = fnIn.ctx
        /\ IsSome(fnIn.serverCtx.inMD) =>
               LET before == Get(fnIn.serverCtx.inMD)
                   after == Get(fnHeap.serverCtx.inMD)
               IN  /\ DOMAIN after = DOMAIN before
                   /\ \A k \in DOMAIN before : after[k] = before[k]
\* C18 witness: inbound metadata with forwarded addresses of its own and a
\* caller address: the outgoing copy has one value more under the key, the
\* inbound metadata has what it had, the base context is as it was.
C18_Witness ==
    /\ IsSome(fnOut)
    /\ IsSome(fnIn.serverCtx.inMD)
    /\ "x-forwarded-for" \in DOMAIN Get(fnIn.serverCtx.inMD)
    /\ HasTcpPeer(fnIn.serverCtx)
    /\ LET before == Get(fnIn.serverCtx.inMD)["x-forwarded-for"]
           after == Get(fnHeap.serverCtx.inMD)["x-forwarded-for"]
           out == Get(Get(fnOut).outMD)["x-forwarded-for"]
       IN  /\ before # <<>>
           /\ after = before
           /\ out = Append(before, TcpIp(fnIn.serverCtx))
    /\ fnHeap.ctx = fnIn.ctx
    /\ Get(fnOut) # fnIn.ctx

\* The positions of step e among the steps of call c.
StepsAt(c, e) == {i \in DOMAIN events[c] : events[c][i] = e}

\* C19: when a call invokes both, the completion callback comes before
\* the cancellation function, so the core has not canceled the outgoing
\* context when the callback runs; the cancellation is the last thing the
\* handler does, only its return follows, and no cancellation is counted
\* while the handler is still at work.
C19_DoneBeforeCancel ==
    \A c \in Calls :
        /\ \A i \in StepsAt(c, "done") : \A j \in StepsAt(c, "cancel") : i < j
        /\ \A j \in StepsAt(c, "cancel") :
               /\ j + 1 = Len(events[c])
               /\ events[c][j + 1] = "return"
        /\ pc[c] # "returned" =>
               cancels[c] = [director |-> 0, derived |-> 0]
\* C19 witness: a call that invoked its callback and then its cancellation
\* function, once each, and returned.
C19_Witness ==
    /\ Returned("c1")
    /\ Len(doneArgs["c1"]) = 1
    /\ cancels["c1"][CancelFn(dir["c1"])] = 1
    /\ StepsAt("c1", "done") # {} /\ StepsAt("c1", "cancel") # {}
    /\ events["c1"][Len(events["c1"]) - 1] = "cancel"

\* C20: with inbound metadata and no derivable caller address (RemoteIp
\* returns the empty string), the outgoing metadata CopyMetadata attaches
\* is the inbound metadata exactly: the same keys, the same values, no
\* x-forwarded-for key made and no empty value put behind the values of
\* one that is there.
C20_NoAddressNoForwardedFor ==
    (/\ IsSome(fnOut)
     /\ IsSome(fnIn.serverCtx.inMD)
     /\ IsSome(fnIp) /\ Len(Get(fnIp)) = 0) =>
        LET in == Get(fnIn.serverCtx.inMD)
        IN  /\ IsSome(Get(fnOut).outMD)
            /\ LET out == Get(Get(fnOut).outMD)
               IN  /\ DOMAIN out = DOMAIN in
                   /\ \A k \in DOMAIN in : out[k] = in[k]
                   /\ "x-forwarded-for" \notin DOMAIN in =>
                          "x-forwarded-for" \notin DOMAIN out
                   /\ \A k \in DOMAIN out :
                          \A i \in DOMAIN out[k] :
                              out[k][i] = <<>> => (i \in DOMAIN in[k]
                                                   /\ in[k][i] = <<>>)
\* C20 witness: a context without a peer whose inbound metadata has
\* forwarded addresses; RemoteIp gave the empty string and the outgoing
\* metadata has the very values of the inbound.
C20_Witness ==
    /\ IsSome(fnOut)
    /\ ~IsSome(fnIn.serverCtx.peer)
    /\ fnIp = Some(<<>>)
    /\ IsSome(fnIn.serverCtx.inMD)
    /\ "x-forwarded-for" \in DOMAIN Get(fnIn.serverCtx.inMD)
    /\ Get(fnIn.serverCtx.inMD)["x-forwarded-for"] # <<>>
    /\ Get(fnOut).outMD = fnIn.serverCtx.inMD
====
